---- MODULE Spec2Model ----
(***************************************************************************)
(* Model of Financial.py: ratio calculation, revenue / net-income          *)
(* projection, discounted-cash-flow valuation, the discount-rate           *)
(* sensitivity sweep, and the entry point that chains them.                *)
(*                                                                         *)
(* Numbers.  The program computes with binary floating point.  The model   *)
(* computes with exact fractions <<n, d>> in lowest terms (d > 0) and the   *)
(* three non-finite values a float64 division can produce: <<1,0>> = +inf, *)
(* <<-1,0>> = -inf, <<0,0>> = nan.  Rounding is therefore not modelled;    *)
(* division by zero, infinities and nan are.                               *)
(***************************************************************************)
EXTENDS Integers, Sequences, FiniteSets, TLC

VARIABLES
    income_statement,   \* binding of the module-level name income_statement
    fetched,            \* the module-level balance_sheet and cash_flow
    main,               \* the other names the entry point assigns
    pc,                 \* the statement of the entry point to run next
    stdout,             \* the lines printed so far
    stages,             \* the functions called so far, in call order
    exc,                \* the uncaught exception that ended the run, if any
    inp,                \* arguments drawn for a direct call of one function
    out                 \* the function called on inp and its outcome

vars == <<income_statement, fetched, main, pc, stdout, stages, exc, inp, out>>

mainVars == <<fetched, main, pc, stdout, stages, exc>>

(***************************************************************************)
(* Arithmetic                                                              *)
(***************************************************************************)
Abs(x) == IF x < 0 THEN -x ELSE x

RECURSIVE GCD(_, _)
GCD(a, b) == IF b = 0 THEN a ELSE GCD(b, a % b)

Norm(n, d) ==
    LET g == GCD(Abs(n), d) IN <<n \div g, d \div g>>

R(n) == <<n, 1>>

Q(n, d) == Norm(n, d)

NaN == <<0, 0>>

Inf == <<1, 0>>

NegInf == <<-1, 0>>

IsFinite(a) == a[2] # 0

IsZero(a) == a[2] # 0 /\ a[1] = 0

Sign(a) == IF a[1] > 0 THEN 1 ELSE IF a[1] < 0 THEN -1 ELSE 0

\* float addition
Add(a, b) ==
    IF a = NaN \/ b = NaN THEN NaN
    ELSE IF ~IsFinite(a) THEN (IF ~IsFinite(b) /\ b # a THEN NaN ELSE a)
    ELSE IF ~IsFinite(b) THEN b
    ELSE LET g == GCD(a[2], b[2])
         IN  Norm(a[1] * (b[2] \div g) + b[1] * (a[2] \div g), (a[2] \div g) * b[2])

Neg(a) == <<-a[1], a[2]>>

Sub(a, b) == Add(a, Neg(b))

\* float multiplication
Mul(a, b) ==
    IF a = NaN \/ b = NaN THEN NaN
    ELSE IF ~IsFinite(a) \/ ~IsFinite(b)
         THEN (IF IsZero(a) \/ IsZero(b) THEN NaN ELSE <<Sign(a) * Sign(b), 0>>)
    ELSE LET g1 == GCD(Abs(a[1]), b[2])
             g2 == GCD(Abs(b[1]), a[2])
         IN  Norm((a[1] \div g1) * (b[1] \div g2), (a[2] \div g2) * (b[2] \div g1))

\* float64 division: a zero divisor yields +-inf or nan, never an exception
Div(a, b) ==
    IF a = NaN \/ b = NaN THEN NaN
    ELSE IF IsZero(b) THEN (IF IsFinite(a) /\ a[1] = 0 THEN NaN ELSE <<Sign(a), 0>>)
    ELSE IF ~IsFinite(b) THEN (IF ~IsFinite(a) THEN NaN ELSE R(0))
    ELSE Mul(a, IF b[1] > 0 THEN <<b[2], b[1]>> ELSE <<-b[2], -b[1]>>)

\* a ** k for an integer k >= 0
RECURSIVE Pow(_, _)
Pow(a, k) == IF k = 0 THEN R(1) ELSE Mul(Pow(a, k - 1), a)

\* float comparison: every comparison with nan is false
Lt(a, b) ==
    /\ a # NaN /\ b # NaN
    /\ IF IsFinite(a) /\ IsFinite(b) THEN a[1] * b[2] < b[1] * a[2]
       ELSE IF IsFinite(a) THEN b = Inf
       ELSE IF IsFinite(b) THEN a = NegInf
       ELSE a = NegInf /\ b = Inf

Eq(a, b) == a # NaN /\ b # NaN /\ a = b

\* the builtin sum(): left to right, starting from 0
RECURSIVE SumFrom(_, _, _)
SumFrom(s, k, acc) ==
    IF k > Len(s) THEN acc ELSE SumFrom(s, k + 1, Add(acc, s[k]))

sum(s) == SumFrom(s, 1, R(0))

(***************************************************************************)
(* Outcomes of a call, tables and series                                   *)
(***************************************************************************)
Return(v) == [kind |-> "return", value |-> v, exc |-> "none"]

Raise(e) == [kind |-> "raise", value |-> <<>>, exc |-> e]

\* series[-1]
Last(s) == s[Len(s)]

HasCol(t, c) == c \in DOMAIN t

Range(n) == [i \in 1..n |-> i - 1]

(***************************************************************************)
(* project_financials                                                      *)
(***************************************************************************)
\* variant: range(1, years + 1), the first projected year already grown
ProjectionExponents_FromOne(years) == [i \in 1..years |-> i]

\* range(years): the exponents 0 .. years-1
ProjectionExponents(years) == Range(years)

RevenueProjections(initial_revenue, growth_rate, years) ==
    LET e == ProjectionExponents(years)
    IN  [k \in 1..Len(e) |-> Mul(initial_revenue, Pow(Add(R(1), growth_rate), e[k]))]

NetIncomeProjections(revenue_projections, margin) ==
    [k \in 1..Len(revenue_projections) |-> Mul(revenue_projections[k], margin)]

project_financials(income, net_profit_margin, growth_rate, years) ==
    IF ~HasCol(income, "Total Revenue") THEN Raise("KeyError")
    ELSE IF income["Total Revenue"] = <<>> THEN Raise("IndexError")
    ELSE LET initial_revenue == Last(income["Total Revenue"])
             revenue_projections == RevenueProjections(initial_revenue, growth_rate, years)
         IN  IF revenue_projections = <<>> THEN Return(<<<<>>, <<>>>>)
             ELSE IF net_profit_margin = <<>> THEN Raise("IndexError")
             ELSE Return(<<revenue_projections,
                           NetIncomeProjections(revenue_projections, Last(net_profit_margin))>>)

(***************************************************************************)
(* dcf_valuation                                                           *)
(*   G is the binding of the module-level name income_statement that the   *)
(*   body reads; float64 tells whether the scalars are numpy.float64 (as   *)
(*   taken from a DataFrame) or builtin floats: only the latter raise      *)
(*   ZeroDivisionError.                                                    *)
(***************************************************************************)
\* the exception, if any, of  cash_flow['Free Cash Flow'][-1] / income_statement['Net Income'][-1]
RatioExc(cash_flow, G, float64) ==
    IF ~HasCol(cash_flow, "Free Cash Flow") THEN "KeyError"
    ELSE IF cash_flow["Free Cash Flow"] = <<>> THEN "IndexError"
    ELSE IF ~G.bound THEN "NameError"
    ELSE IF ~HasCol(G.table, "Net Income") THEN "KeyError"
    ELSE IF G.table["Net Income"] = <<>> THEN "IndexError"
    ELSE IF ~float64 /\ IsZero(Last(G.table["Net Income"])) THEN "ZeroDivisionError"
    ELSE "none"

DcfRatio(cash_flow, G) ==
    Div(Last(cash_flow["Free Cash Flow"]), Last(G.table["Net Income"]))

DcfFreeCashFlow(net_income_projections, ratio) ==
    [k \in 1..Len(net_income_projections) |-> Mul(net_income_projections[k], ratio)]

DcfTerminalValue(fcf, discount_rate, terminal_growth_rate) ==
    Div(Mul(Last(fcf), Add(R(1), terminal_growth_rate)),
        Sub(discount_rate, terminal_growth_rate))

\* variant: compounding instead of discounting
DcfDiscount_Compounding(x, discount_rate, i) ==
    Mul(x, Pow(Add(R(1), discount_rate), i + 1))

\* variant: the first projected period not discounted
DcfDiscount_NoLag(x, discount_rate, i) ==
    Div(x, Pow(Add(R(1), discount_rate), i))

\* fcf / (1 + discount_rate)**(i + 1), i the 0-based position
DcfDiscount(x, discount_rate, i) ==
    Div(x, Pow(Add(R(1), discount_rate), i + 1))

DcfDiscountedFcf(fcf, discount_rate) ==
    [k \in 1..Len(fcf) |-> DcfDiscount(fcf[k], discount_rate, k - 1)]

DcfDiscountedTerminal(terminal_value, discount_rate, n) ==
    Div(terminal_value, Pow(Add(R(1), discount_rate), n))

\* the exception, if any, that ends a dcf_valuation call
DcfExc(net_income_projections, cash_flow, discount_rate, terminal_growth_rate, G, float64) ==
    IF RatioExc(cash_flow, G, float64) # "none" THEN RatioExc(cash_flow, G, float64)
    ELSE IF net_income_projections = <<>> THEN "IndexError"
    ELSE IF ~float64 /\ IsZero(Sub(discount_rate, terminal_growth_rate))
         THEN "ZeroDivisionError"
    ELSE IF ~float64 /\ IsZero(Add(R(1), discount_rate)) THEN "ZeroDivisionError"
    ELSE "none"

dcf_valuation(net_income_projections, cash_flow, discount_rate, terminal_growth_rate, G, float64) ==
    IF DcfExc(net_income_projections, cash_flow, discount_rate, terminal_growth_rate, G, float64)
           # "none"
    THEN Raise(DcfExc(net_income_projections, cash_flow, discount_rate, terminal_growth_rate,
                      G, float64))
    ELSE LET fcf == DcfFreeCashFlow(net_income_projections, DcfRatio(cash_flow, G))
             terminal_value == DcfTerminalValue(fcf, discount_rate, terminal_growth_rate)
         IN  Return(Add(sum(DcfDiscountedFcf(fcf, discount_rate)),
                        DcfDiscountedTerminal(terminal_value, discount_rate, Len(fcf))))

(***************************************************************************)
(* sensitivity_analysis                                                    *)
(***************************************************************************)
SensRatio(cash_flow, G) ==
    Div(Last(cash_flow["Free Cash Flow"]), Last(G.table["Net Income"]))

SensFreeCashFlow(net_income_projections, ratio) ==
    [k \in 1..Len(net_income_projections) |-> Mul(net_income_projections[k], ratio)]

\* variant: discount_rates[-1]
SensTerminalRate_Last(discount_rates) == discount_rates[Len(discount_rates)]

\* the rate the terminal value is sized with: discount_rates[0]
SensTerminalRate(discount_rates) == discount_rates[1]

SensTerminalValue(fcf, discount_rates, terminal_growth_rate) ==
    Div(Mul(Last(fcf), Add(R(1), terminal_growth_rate)),
        Sub(SensTerminalRate(discount_rates), terminal_growth_rate))

\* variant: the first projected period not discounted
SensDiscount_NoLag(x, rate, i) ==
    Div(x, Pow(Add(R(1), rate), i))

SensDiscount(x, rate, i) ==
    Div(x, Pow(Add(R(1), rate), i + 1))

SensEnterpriseValue(fcf, terminal_value, rate) ==
    Add(sum([k \in 1..Len(fcf) |-> SensDiscount(fcf[k], rate, k - 1)]),
        Div(terminal_value, Pow(Add(R(1), rate), Len(fcf))))

\* variant: results.insert(0, (rate, enterprise_value))
SensAppend_Prepend(results, pair) == <<pair>> \o results

\* results.append((rate, enterprise_value))
SensAppend(results, pair) == Append(results, pair)

\* the for loop over discount_rates, from position k on
RECURSIVE SensLoop(_, _, _, _, _)
SensLoop(fcf, terminal_value, discount_rates, k, results) ==
    IF k > Len(discount_rates) THEN results
    ELSE SensLoop(fcf, terminal_value, discount_rates, k + 1,
                  SensAppend(results,
                             <<discount_rates[k],
                               SensEnterpriseValue(fcf, terminal_value, discount_rates[k])>>))

\* the exception, if any, that ends a sensitivity_analysis call
SensExc(net_income_projections, cash_flow, discount_rates, terminal_growth_rate, G, float64) ==
    IF RatioExc(cash_flow, G, float64) # "none" THEN RatioExc(cash_flow, G, float64)
    ELSE IF net_income_projections = <<>> THEN "IndexError"
    ELSE IF discount_rates = <<>> THEN "IndexError"
    ELSE IF ~float64 /\ IsZero(Sub(discount_rates[1], terminal_growth_rate))
         THEN "ZeroDivisionError"
    ELSE IF ~float64 /\ \E k \in 1..Len(discount_rates) : IsZero(Add(R(1), discount_rates[k]))
         THEN "ZeroDivisionError"
    ELSE "none"

sensitivity_analysis(net_income_projections, cash_flow, discount_rates, terminal_growth_rate, G, float64) ==
    IF SensExc(net_income_projections, cash_flow, discount_rates, terminal_growth_rate, G, float64)
           # "none"
    THEN Raise(SensExc(net_income_projections, cash_flow, discount_rates, terminal_growth_rate,
                       G, float64))
    ELSE LET fcf == SensFreeCashFlow(net_income_projections, SensRatio(cash_flow, G))
             terminal_value == SensTerminalValue(fcf, discount_rates, terminal_growth_rate)
         IN  Return(SensLoop(fcf, terminal_value, discount_rates, 1, <<>>))

(***************************************************************************)
(* calculate_ratios                                                        *)
(***************************************************************************)
\* element-wise division of two columns of one table
SeriesDiv(a, b) == [k \in 1..Len(a) |-> Div(a[k], b[k])]

calculate_ratios(income, balance) ==
    IF \E c \in {"Gross Profit", "Total Revenue", "Operating Income", "Net Income"} :
           ~HasCol(income, c)
    THEN Raise("KeyError")
    ELSE IF \E c \in {"Total Liabilities", "Total Stockholder Equity"} : ~HasCol(balance, c)
    THEN Raise("KeyError")
    ELSE Return([gross_margin |-> SeriesDiv(income["Gross Profit"], income["Total Revenue"]),
                 operating_margin |-> SeriesDiv(income["Operating Income"], income["Total Revenue"]),
                 net_profit_margin |-> SeriesDiv(income["Net Income"], income["Total Revenue"]),
                 debt_to_equity |-> SeriesDiv(balance["Total Liabilities"],
                                              balance["Total Stockholder Equity"])])

(***************************************************************************)
(* Bounds and input sets                                                   *)
(***************************************************************************)
MaxYears == 3

MaxRates == 2

MaxRows == 1

Unbound == [bound |-> FALSE, table |-> <<>>]

Bound(t) == [bound |-> TRUE, table |-> t]

Col(c, series) == [x \in {c} |-> series]

DiscountRates == {R(-1), R(0), Q(1, 10), Q(1, 4), Q(1, 2)}

SweepRates == {R(-1), R(0), Q(1, 10), Q(1, 2)}

TerminalGrowthRates == {R(-2), R(-1), R(0), Q(1, 50), Q(1, 10)}

GrowthRates == {Q(-1, 2), R(0), Q(1, 10), R(1)}

NetIncomeLists ==
    {<<>>, <<R(200)>>, <<R(200), R(220), R(242)>>, <<R(-200), R(-220)>>,
     <<R(100), R(0)>>, <<R(-100), R(50)>>}

CashFlowTables ==
    {<<>>, Col("Free Cash Flow", <<>>), Col("Free Cash Flow", <<R(100)>>),
     Col("Free Cash Flow", <<R(-50), R(200)>>)}

IncomeBindings ==
    {Unbound, Bound(<<>>), Bound(Col("Net Income", <<R(100)>>)),
     Bound(Col("Net Income", <<R(50), R(200)>>)), Bound(Col("Net Income", <<R(0)>>))}

RevenueTables ==
    {<<>>, Col("Total Revenue", <<>>), Col("Total Revenue", <<R(1000)>>),
     Col("Total Revenue", <<R(500), R(40)>>)}

MarginSeries == {<<>>, <<Q(1, 5)>>, <<Q(1, 10), Q(-1, 4)>>}

\* all sequences over S of length at most n
SeqsUpTo(S, n) == UNION {[1..k -> S] : k \in 0..n}

NoInput ==
    [fn |-> "none", income |-> <<>>, net_profit_margin |-> <<>>, growth_rate |-> R(0),
     years |-> 0, net_income_projections |-> <<>>, cash_flow |-> <<>>,
     discount_rates |-> <<>>, terminal_growth_rate |-> R(0), float64 |-> TRUE]

ProjectionInputs ==
    {[NoInput EXCEPT !.fn = "projection", !.income = t, !.net_profit_margin = m,
                     !.growth_rate = g, !.years = y] :
        t \in RevenueTables, m \in MarginSeries, g \in GrowthRates, y \in 0..MaxYears}

ValuationInputs ==
    {[NoInput EXCEPT !.fn = "valuation", !.net_income_projections = n, !.cash_flow = c,
                     !.discount_rates = rs, !.terminal_growth_rate = g, !.float64 = f] :
        n \in NetIncomeLists, c \in CashFlowTables, rs \in SeqsUpTo(SweepRates, MaxRates),
        g \in TerminalGrowthRates, f \in BOOLEAN}

NoCall == [fn |-> "none", discount_rate |-> R(0), ret |-> Return(<<>>)]

NoLocals ==
    [ratios |-> <<>>, revenue_projections |-> <<>>, net_income_projections |-> <<>>,
     enterprise_value |-> <<>>, sensitivity_rates |-> <<>>]

NoTables == [balance_sheet |-> <<>>, cash_flow |-> <<>>]

(***************************************************************************)
(* Calls of the three functions on drawn arguments                         *)
(***************************************************************************)
InitFn ==
    /\ inp \in ProjectionInputs \cup ValuationInputs
    /\ income_statement \in (IF inp.fn = "projection" THEN {Unbound} ELSE IncomeBindings)
    /\ out = NoCall
    /\ pc = "fetch"
    /\ fetched = NoTables
    /\ main = NoLocals
    /\ stdout = <<>>
    /\ stages = <<>>
    /\ exc = "none"

CallProject ==
    /\ inp.fn = "projection"
    /\ out.fn = "none"
    /\ out' = [fn |-> "project_financials", discount_rate |-> R(0),
               ret |-> project_financials(inp.income, inp.net_profit_margin,
                                          inp.growth_rate, inp.years)]
    /\ UNCHANGED <<income_statement, inp, mainVars>>

CallDcf ==
    /\ inp.fn = "valuation"
    /\ out.fn = "none"
    /\ \E r \in DiscountRates :
          out' = [fn |-> "dcf_valuation", discount_rate |-> r,
                  ret |-> dcf_valuation(inp.net_income_projections, inp.cash_flow, r,
                                        inp.terminal_growth_rate, income_statement,
                                        inp.float64)]
    /\ UNCHANGED <<income_statement, inp, mainVars>>

CallSensitivity ==
    /\ inp.fn = "valuation"
    /\ out.fn = "none"
    /\ out' = [fn |-> "sensitivity_analysis", discount_rate |-> R(0),
               ret |-> sensitivity_analysis(inp.net_income_projections, inp.cash_flow,
                                            inp.discount_rates, inp.terminal_growth_rate,
                                            income_statement, inp.float64)]
    /\ UNCHANGED <<income_statement, inp, mainVars>>

NextFn == CallProject \/ CallDcf \/ CallSensitivity

SpecFn == InitFn /\ [][NextFn]_vars

(***************************************************************************)
(* Properties of the three functions (checked under SpecFn)                *)
(***************************************************************************)
Returned(fn) == out.fn = fn /\ out.ret.kind = "return"

\* the free cash flows both valuation functions derive from the drawn arguments
ArgFcf ==
    [k \in 1..Len(inp.net_income_projections) |->
        Mul(inp.net_income_projections[k],
            Div(Last(inp.cash_flow["Free Cash Flow"]), Last(income_statement.table["Net Income"])))]

AllFinite(s) == \A k \in 1..Len(s) : IsFinite(s[k])

OnePlus(r) == Add(R(1), r)

\* sum over i of fcf[i] * (1+r)^(n-i), i.e. the discounted sum multiplied through by (1+r)^n
RECURSIVE Compounded(_, _, _)
Compounded(fcf, r, k) ==
    IF k > Len(fcf) THEN R(0)
    ELSE Add(Mul(fcf[k], Pow(OnePlus(r), Len(fcf) - k)), Compounded(fcf, r, k + 1))

\* C6: project_financials returns two sequences of length years; revenue starts at the
\* last-period revenue unescalated and grows by the factor (1+growth_rate) per period;
\* net income is revenue times the last-period margin; 1000 at 10% over 3 years with a
\* 20% margin gives [1000, 1100, 1210] and [200, 220, 242].
C6_Projection ==
    Returned("project_financials") =>
        LET rev == out.ret.value[1]
            ni == out.ret.value[2]
            initial_revenue == Last(inp.income["Total Revenue"])
        IN  /\ Len(rev) = inp.years
            /\ Len(ni) = inp.years
            /\ inp.years >= 1 => rev[1] = initial_revenue
            /\ \A k \in 1..(inp.years - 1) : rev[k + 1] = Mul(rev[k], OnePlus(inp.growth_rate))
            /\ \A k \in 1..inp.years : ni[k] = Mul(rev[k], Last(inp.net_profit_margin))
            /\ (/\ initial_revenue = R(1000)
                /\ inp.growth_rate = Q(1, 10)
                /\ inp.years = 3
                /\ Last(inp.net_profit_margin) = Q(1, 5))
               => /\ rev = <<R(1000), R(1100), R(1210)>>
                  /\ ni = <<R(200), R(220), R(242)>>

C6_Witness ==
    /\ Returned("project_financials")
    /\ inp.years = 3
    /\ out.ret.value = <<<<R(1000), R(1100), R(1210)>>, <<R(200), R(220), R(242)>>>>

\* C1: dcf_valuation never returns an enterprise value when
\* discount_rate <= terminal_growth_rate; it reports an error instead.
C1_RateValidated ==
    (out.fn = "dcf_valuation" /\ ~Lt(inp.terminal_growth_rate, out.discount_rate))
        => out.ret.kind = "raise"

\* C3: the value of a dcf_valuation call is determined by its arguments alone: under
\* any other binding of the module-level income_statement the same call gives the same
\* outcome.
C3_PureFunction ==
    Returned("dcf_valuation") =>
        \A G \in IncomeBindings :
            dcf_valuation(inp.net_income_projections, inp.cash_flow, out.discount_rate,
                          inp.terminal_growth_rate, G, inp.float64) = out.ret

\* the value dcf_valuation gives at rate r for the drawn arguments
DcfAt(r) ==
    dcf_valuation(inp.net_income_projections, inp.cash_flow, r,
                  inp.terminal_growth_rate, income_statement, inp.float64)

\* C2 (as stated): with everything but the discount rate fixed, the enterprise value is
\* strictly smaller at every larger rate, for rates above terminal_growth_rate.
C2_StrictlyDecreasing ==
    (Returned("dcf_valuation") /\ Lt(inp.terminal_growth_rate, out.discount_rate)) =>
        \A r2 \in DiscountRates :
            Lt(out.discount_rate, r2) => Lt(DcfAt(r2).value, out.ret.value)

NonNegative(a) == ~Lt(a, R(0)) /\ a # NaN

PositiveCashFlows ==
    /\ AllFinite(ArgFcf)
    /\ \A k \in 1..Len(ArgFcf) : NonNegative(ArgFcf[k])
    /\ Lt(R(0), Last(ArgFcf))

\* C2 (amended): the enterprise value is strictly decreasing in the discount rate when
\* every projected free cash flow is finite and non-negative, the last one is positive,
\* and terminal_growth_rate >= -1.
C2_DecreasingForPositiveFcf ==
    (/\ Returned("dcf_valuation")
     /\ Lt(inp.terminal_growth_rate, out.discount_rate)
     /\ ~Lt(inp.terminal_growth_rate, R(-1))
     /\ PositiveCashFlows) =>
        \A r2 \in DiscountRates :
            Lt(out.discount_rate, r2) => Lt(DcfAt(r2).value, out.ret.value)

C2_Witness ==
    /\ Returned("dcf_valuation")
    /\ out.discount_rate = Q(1, 10)
    /\ inp.terminal_growth_rate = Q(1, 50)
    /\ PositiveCashFlows
    /\ Len(ArgFcf) = 3
    /\ Lt(DcfAt(Q(1, 4)).value, out.ret.value)

\* C7: for discount_rate > terminal_growth_rate and n >= 1 projected periods the returned
\* value EV is  sum_i fcf[i]/(1+r)^(i+1) + TV/(1+r)^n  with fcf[i] = net_income[i]*ratio and
\* TV = fcf[n-1]*(1+g)/(r-g).  Stated multiplied through by (1+r)^n (r-g):
\*   EV (1+r)^n (r-g) = (sum_i fcf[i] (1+r)^(n-1-i)) (r-g) + fcf[n-1] (1+g).
\* At r = -1 every discount factor is zero and the value returned is not a number.
C7_DcfFormula ==
    (/\ Returned("dcf_valuation")
     /\ Lt(inp.terminal_growth_rate, out.discount_rate)
     /\ AllFinite(ArgFcf)) =>
        LET r == out.discount_rate
            g == inp.terminal_growth_rate
            n == Len(ArgFcf)
        IN  /\ IsFinite(out.ret.value) <=> ~IsZero(OnePlus(r))
            /\ IsZero(OnePlus(r)) \/ Mul(Mul(out.ret.value, Pow(OnePlus(r), n)), Sub(r, g))
                 = Add(Mul(Compounded(ArgFcf, r, 1), Sub(r, g)),
                       Mul(Last(ArgFcf), OnePlus(g)))
            /\ (ArgFcf = <<R(200), R(220), R(242)>> /\ r = Q(1, 10) /\ g = Q(1, 50))
                  => out.ret.value = Q(31500, 11)

C7_Witness ==
    /\ Returned("dcf_valuation")
    /\ ArgFcf = <<R(200), R(220), R(242)>>
    /\ out.discount_rate = Q(1, 10)
    /\ inp.terminal_growth_rate = Q(1, 50)
    /\ out.ret.value = Q(31500, 11)

\* C5: sensitivity_analysis returns one (rate, value) pair per input rate, in input order,
\* also when rates repeat or are unsorted.
C5_OnePairPerRate ==
    Returned("sensitivity_analysis") =>
        /\ Len(out.ret.value) = Len(inp.discount_rates)
        /\ \A k \in 1..Len(inp.discount_rates) : out.ret.value[k][1] = inp.discount_rates[k]

C5_Witness ==
    /\ Returned("sensitivity_analysis")
    /\ Len(inp.discount_rates) = MaxRates
    /\ Lt(inp.discount_rates[2], inp.discount_rates[1])
    /\ out.ret.value[1][1] = inp.discount_rates[1]

\* the terminal value sized with the FIRST rate of the sweep
FirstRateTerminalValue ==
    Div(Mul(Last(ArgFcf), OnePlus(inp.terminal_growth_rate)),
        Sub(inp.discount_rates[1], inp.terminal_growth_rate))

\* C8: every pair of the sweep discounts with its own rate r but uses the terminal value
\* of the first rate:  EV(r) = sum_i fcf[i]/(1+r)^(i+1) + TV(first rate)/(1+r)^n.
\* Stated multiplied through by (1+r)^n; at r = -1 the value is not a number.
C8_TerminalValueFromFirstRate ==
    (/\ Returned("sensitivity_analysis")
     /\ AllFinite(ArgFcf)
     /\ inp.discount_rates[1] # inp.terminal_growth_rate) =>
        \A k \in 1..Len(inp.discount_rates) :
            LET r == inp.discount_rates[k]
            IN  /\ IsFinite(out.ret.value[k][2]) <=> ~IsZero(OnePlus(r))
                /\ IsZero(OnePlus(r))
                      \/ Mul(out.ret.value[k][2], Pow(OnePlus(r), Len(ArgFcf)))
                           = Add(Compounded(ArgFcf, r, 1), FirstRateTerminalValue)

C8_Witness ==
    /\ Returned("sensitivity_analysis")
    /\ AllFinite(ArgFcf)
    /\ ~IsZero(Last(ArgFcf))
    /\ Len(inp.discount_rates) = MaxRates
    /\ inp.discount_rates[1] # inp.discount_rates[2]
    /\ inp.discount_rates[1] # inp.terminal_growth_rate
    /\ inp.discount_rates[2] # inp.terminal_growth_rate
    /\ inp.terminal_growth_rate # R(-1)
    /\ out.ret.value[2][2] # DcfAt(inp.discount_rates[2]).value

FirstRateAgrees ==
    (/\ Returned("sensitivity_analysis")
     /\ Lt(inp.terminal_growth_rate, inp.discount_rates[1])) =>
        /\ DcfAt(inp.discount_rates[1]).kind = "return"
        /\ out.ret.value[1][2] = DcfAt(inp.discount_rates[1]).value

\* the sweep's value at position k is the number dcf_valuation returns for that rate
AgreesAt(k) ==
    /\ DcfAt(inp.discount_rates[k]).kind = "return"
    /\ Eq(out.ret.value[k][2], DcfAt(inp.discount_rates[k]).value)

\* C10 (as stated): the sweep's value for the first rate is dcf_valuation's value for that
\* rate; for a later rate different from the first the two agree only if the last
\* projected free cash flow is zero.
C10_AgreeOnlyIfZeroFcf ==
    /\ FirstRateAgrees
    /\ (/\ Returned("sensitivity_analysis")
        /\ Lt(inp.terminal_growth_rate, inp.discount_rates[1])) =>
           \A k \in 2..Len(inp.discount_rates) :
               (inp.discount_rates[k] # inp.discount_rates[1] /\ AgreesAt(k))
                   => IsZero(Last(ArgFcf))

\* C10 (amended): the first-rate values are the same; for a later rate different from the
\* first, with finite projected free cash flows, the two agree only if the last projected
\* free cash flow is zero or terminal_growth_rate is -1.
C10_AgreeOnlyIfZeroTerminal ==
    /\ FirstRateAgrees
    /\ (/\ Returned("sensitivity_analysis")
        /\ Lt(inp.terminal_growth_rate, inp.discount_rates[1])
        /\ AllFinite(ArgFcf)) =>
           \A k \in 2..Len(inp.discount_rates) :
               (inp.discount_rates[k] # inp.discount_rates[1] /\ AgreesAt(k))
                   => (IsZero(Last(ArgFcf)) \/ inp.terminal_growth_rate = R(-1))

C10_Witness ==
    /\ Returned("sensitivity_analysis")
    /\ Lt(inp.terminal_growth_rate, inp.discount_rates[1])
    /\ Len(inp.discount_rates) = MaxRates
    /\ inp.discount_rates[2] # inp.discount_rates[1]
    /\ AllFinite(ArgFcf)
    /\ ~IsZero(Last(ArgFcf))
    /\ inp.terminal_growth_rate # R(-1)
    /\ IsFinite(out.ret.value[1][2])
    /\ out.ret.value[1][2] = DcfAt(inp.discount_rates[1]).value
    /\ ~AgreesAt(2)

(***************************************************************************)
(* The entry point (if __name__ == "__main__")                             *)
(*                                                                         *)
(* The tables a fetch returns are drawn by the columns they hold and the   *)
(* number of periods; every period of a column carries one representative  *)
(* value.  The five enterprise values of the sweep are not carried in the  *)
(* state: (1 + 0.09)^5 alone needs a denominator of 10^10.  What the run   *)
(* keeps of the sweep is its sequence of rates and whether it raised.      *)
(***************************************************************************)
growth_rate == Q(1, 10)

projection_years == 5

discount_rate == Q(1, 10)

terminal_growth_rate == Q(1, 50)

\* np.linspace(0.08, 0.12, 5)
discount_rates == <<Q(8, 100), Q(9, 100), Q(10, 100), Q(11, 100), Q(12, 100)>>

IncomeColumns == {"Gross Profit", "Operating Income", "Net Income", "Total Revenue"}

BalanceColumns == {"Total Liabilities", "Total Stockholder Equity"}

CashFlowColumns == {"Free Cash Flow"}

ColumnValue(c) ==
    CASE c = "Total Revenue" -> R(4)
      [] c = "Gross Profit" -> R(2)
      [] c = "Total Liabilities" -> R(3)
      [] OTHER -> R(1)

\* a table with the columns cols over rows periods
Table(cols, rows) == [c \in cols |-> [k \in 1..rows |-> ColumnValue(c)]]

\* variant: the valuation placed before the projection
MainOrder_ValuationFirst ==
    <<"fetch", "ratios", "print_ratios", "dcf", "project", "print_ev", "sensitivity",
      "print_sens", "plot_projections", "plot_sensitivity", "done">>

\* the statements of the entry point, in program order
MainOrder ==
    <<"fetch", "ratios", "print_ratios", "project", "dcf", "print_ev", "sensitivity",
      "print_sens", "plot_projections", "plot_sensitivity", "done">>

\* the statement that follows p
After(p) == MainOrder[(CHOOSE k \in 1..Len(MainOrder) : MainOrder[k] = p) + 1]

InitMain ==
    /\ income_statement = Unbound
    /\ fetched = NoTables
    /\ main = NoLocals
    /\ pc = "fetch"
    /\ stdout = <<>>
    /\ stages = <<>>
    /\ exc = "none"
    /\ inp = NoInput
    /\ out = NoCall

\* an uncaught exception ends the run
Abort(e) ==
    /\ pc' = "aborted"
    /\ exc' = e

\* line 95: get_company_data(ticker); the provider fails or returns the tables
Fetch ==
    /\ pc = "fetch"
    /\ stages' = Append(stages, "get_company_data")
    /\ \/ /\ Abort("DataSourceFailure")
          /\ UNCHANGED <<income_statement, fetched>>
       \/ \E ic \in SUBSET IncomeColumns, bc \in SUBSET BalanceColumns,
             cc \in SUBSET CashFlowColumns, ir \in 0..MaxRows, cr \in 0..MaxRows :
             /\ income_statement' = Bound(Table(ic, ir))
             /\ fetched' = [balance_sheet |-> Table(bc, ir), cash_flow |-> Table(cc, cr)]
             /\ pc' = After(pc)
             /\ exc' = exc
    /\ UNCHANGED <<main, stdout, inp, out>>

\* line 98
CalcRatios ==
    /\ pc = "ratios"
    /\ stages' = Append(stages, "calculate_ratios")
    /\ LET r == calculate_ratios(income_statement.table, fetched.balance_sheet)
       IN  IF r.kind = "raise"
           THEN Abort(r.exc) /\ main' = main
           ELSE /\ main' = [main EXCEPT !.ratios = r.value]
                /\ pc' = After(pc)
                /\ exc' = exc
    /\ UNCHANGED <<income_statement, fetched, stdout, inp, out>>

\* lines 99-100
PrintRatios ==
    /\ pc = "print_ratios"
    /\ stdout' = stdout \o <<"Financial Ratios:", "ratios">>
    /\ pc' = After(pc)
    /\ UNCHANGED <<income_statement, fetched, main, stages, exc, inp, out>>

\* line 105
Project ==
    /\ pc = "project"
    /\ stages' = Append(stages, "project_financials")
    /\ LET r == project_financials(income_statement.table, main.ratios.net_profit_margin,
                                   growth_rate, projection_years)
       IN  IF r.kind = "raise"
           THEN Abort(r.exc) /\ main' = main
           ELSE /\ main' = [main EXCEPT !.revenue_projections = r.value[1],
                                        !.net_income_projections = r.value[2]]
                /\ pc' = After(pc)
                /\ exc' = exc
    /\ UNCHANGED <<income_statement, fetched, stdout, inp, out>>

\* line 110
Dcf ==
    /\ pc = "dcf"
    /\ stages' = Append(stages, "dcf_valuation")
    /\ LET r == dcf_valuation(main.net_income_projections, fetched.cash_flow, discount_rate,
                              terminal_growth_rate, income_statement, TRUE)
       IN  IF r.kind = "raise"
           THEN Abort(r.exc) /\ main' = main
           ELSE /\ main' = [main EXCEPT !.enterprise_value = r.value]
                /\ pc' = After(pc)
                /\ exc' = exc
    /\ UNCHANGED <<income_statement, fetched, stdout, inp, out>>

\* line 111
PrintEnterpriseValue ==
    /\ pc = "print_ev"
    /\ stdout' = Append(stdout, "Enterprise Value")
    /\ pc' = After(pc)
    /\ UNCHANGED <<income_statement, fetched, main, stages, exc, inp, out>>

\* lines 114-115
Sensitivity ==
    /\ pc = "sensitivity"
    /\ stages' = Append(stages, "sensitivity_analysis")
    /\ LET e == SensExc(main.net_income_projections, fetched.cash_flow, discount_rates,
                        terminal_growth_rate, income_statement, TRUE)
       IN  IF e # "none"
           THEN Abort(e) /\ main' = main
           ELSE /\ main' = [main EXCEPT !.sensitivity_rates = discount_rates]
                /\ pc' = After(pc)
                /\ exc' = exc
    /\ UNCHANGED <<income_statement, fetched, stdout, inp, out>>

SensLines == Cardinality({k \in 1..Len(stdout) : stdout[k] = "Enterprise Value at rate"})

\* lines 117-119: one line per pair of the sweep
PrintSensitivity ==
    /\ pc = "print_sens"
    /\ IF SensLines < Len(main.sensitivity_rates)
       THEN /\ stdout' = Append(stdout, "Enterprise Value at rate")
            /\ pc' = pc
       ELSE /\ stdout' = stdout
            /\ pc' = After(pc)
    /\ UNCHANGED <<income_statement, fetched, main, stages, exc, inp, out>>

\* line 122
VisualizeProjections ==
    /\ pc = "plot_projections"
    /\ stages' = Append(stages, "visualize_projections")
    /\ pc' = After(pc)
    /\ UNCHANGED <<income_statement, fetched, main, stdout, exc, inp, out>>

\* line 123
VisualizeSensitivity ==
    /\ pc = "plot_sensitivity"
    /\ stages' = Append(stages, "visualize_sensitivity")
    /\ pc' = After(pc)
    /\ UNCHANGED <<income_statement, fetched, main, stdout, exc, inp, out>>

Next ==
    \/ Fetch
    \/ CalcRatios
    \/ PrintRatios
    \/ Project
    \/ Dcf
    \/ PrintEnterpriseValue
    \/ Sensitivity
    \/ PrintSensitivity
    \/ VisualizeProjections
    \/ VisualizeSensitivity

Spec == InitMain /\ [][Next]_vars

(***************************************************************************)
(* Properties of a run of the entry point (checked under Spec)             *)
(***************************************************************************)
StageOrder ==
    <<"get_company_data", "calculate_ratios", "project_financials", "dcf_valuation",
      "sensitivity_analysis", "visualize_projections", "visualize_sensitivity">>

IsPrefix(s, t) == Len(s) <= Len(t) /\ \A k \in 1..Len(s) : s[k] = t[k]

\* C9: the fetch happens once and before any computation, and the stages run in the order
\* ratios, projection, DCF valuation, sensitivity analysis, plotting: the calls made so
\* far are always an initial part of that order, nothing is computed before the fetch,
\* and a run that ends normally has made every call.
C9_StageOrder ==
    /\ IsPrefix(stages, StageOrder)
    /\ stages = <<>> => (main = NoLocals /\ ~income_statement.bound)
    /\ main.enterprise_value # <<>> => main.net_income_projections # <<>>
    /\ main.net_income_projections # <<>> => main.ratios # <<>>
    /\ main.sensitivity_rates # <<>> => main.enterprise_value # <<>>
    /\ pc = "done" => stages = StageOrder

C9_Witness ==
    /\ pc = "done"
    /\ stages = StageOrder
    /\ main.sensitivity_rates = discount_rates

\* C4: a run that fails has printed nothing.
C4_NoPartialResults ==
    pc = "aborted" => stdout = <<>>
====
